---- MODULE Spec2Model ----
(***************************************************************************)
(* A model of the CHIP-8 interpreter core of src/src/lib.rs: the Chip8     *)
(* struct (memory, display, input buffer, program counter, index register, *)
(* stack, timers, variable registers, ticks) and its operations new,       *)
(* on_input, load_program and update (fetch, Instruction::try_from,        *)
(* execute).  Integers keep the width of their Rust type; an arithmetic    *)
(* overflow panics in a build with overflow checks (the debug profile) and *)
(* wraps in a build without them (the release profile); an index past the  *)
(* end of an array or slice panics in every build.                         *)
(***************************************************************************)
EXTENDS Integers, Sequences, FiniteSets, TLC

\* ------------------------------------------------------------ constants
RAM_SIZE == 4096
DISPLAY_WIDTH == 64
DISPLAY_HEIGHT == 32
VARIABLE_REGISTER_SIZE == 16
FLAG_REGISTER == 15

FONT ==
  << 240, 144, 144, 144, 240,    32,  96,  32,  32, 112,
     240,  16, 240, 128, 240,   240,  16, 240,  16, 240,
     144, 144, 240,  16,  16,   240, 128, 240,  16, 240,
     240, 128, 240, 144, 240,   240,  16,  32,  64,  64,
     240, 144, 240, 144, 240,   240, 144, 240,  16, 240,
     240, 144, 240, 144, 144,   224, 144, 224, 144, 224,
     240, 128, 128, 128, 240,   224, 144, 144, 144, 224,
     240, 128, 240, 128, 240,   240, 128, 240, 128, 128 >>

\* The address the font is loaded at (0x050) and the address programs are
\* loaded at and started from (0x200).
FONT_BASE == 80
PROGRAM_BASE == 512

\* ------------------------------------------------------------ bounds
\* The driver makes at most MaxLoads load_program calls, MaxUpdates update
\* calls and MaxInputs on_input calls; the tick count given to new is 0, 1
\* or MaxTicks.
MaxLoads == 2
MaxUpdates == 2
MaxInputs == 1
MaxTicks == 4
TickCounts == { 0, 1, MaxTicks }

\* ------------------------------------------------------------ results
\* Result<T, String>: Ok carries the value (0 for the unit value), Err the
\* kind of message and the number the message is formatted with.  Panic is
\* the abnormal end of the process, which no caller receives as a value.
Ok(v) == [tag |-> "Ok", kind |-> "", arg |-> v]
Err(k, v) == [tag |-> "Err", kind |-> k, arg |-> v]
Panic(k) == [tag |-> "Panic", kind |-> k, arg |-> 0]
Pending == [tag |-> "Pending", kind |-> "", arg |-> 0]

\* ------------------------------------------------------------ variables
VARIABLES
  overflow_checks,     \* the build: "on" when arithmetic overflow panics, "off"
                       \* when it wraps, "any" while no step has depended on it
  ticks,               \* Chip8.ticks
  menu,                \* the programs the driver chooses from
  loads, updates,      \* calls made so far
  remaining,           \* iterations left in the running update call
  executed,            \* ticks completed by the running or last update call
  call,                \* the operation the driver called last
  result,              \* what that call returned (Pending while it runs)
  op,                  \* the last step taken
  program_counter,     \* Chip8.program_counter : u16
  index_register,      \* Chip8.index_register : u16
  stack,               \* Chip8.stack.inner : Vec<u16>
  variable_registers,  \* Chip8.variable_registers : [u8; 16]
  delay_timer,         \* Chip8.delay_timer.inner : u8
  sound_timer,         \* Chip8.sound_timer.inner : u8
  input,               \* Chip8.input.inner : Vec<(char, bool)>
  memory,              \* Chip8.memory.inner : [u8; 4096]
  display,             \* Chip8.display.inner : [bool; 2048]
  prev,                \* the machine before the last step
  earlier,             \* the step before the last one, and the machine before it
  glyph_entry          \* whether the running or last update was called on a new
                       \* machine with I at the glyph "0" and GlyphRom loaded

vars == << overflow_checks, ticks, menu, loads, updates, remaining, executed,
           call, result, op, program_counter, index_register, stack,
           variable_registers, delay_timer, sound_timer, input, memory,
           display, prev, earlier, glyph_entry >>

\* The Chip8 struct as one value.
Machine ==
  [ program_counter |-> program_counter, index_register |-> index_register,
    stack |-> stack, variable_registers |-> variable_registers,
    delay_timer |-> delay_timer, sound_timer |-> sound_timer,
    input |-> input, memory |-> memory, display |-> display ]

\* ------------------------------------------------------------ arithmetic
\* a + b in an unsigned type of the given modulus: the sum when it fits;
\* otherwise a panic with overflow checks and the wrapped sum without.
\* oc says whether the build checks for overflow.
checked_add(a, b, modulus, oc) ==
  IF a + b < modulus THEN Ok(a + b)
  ELSE IF oc THEN Panic("attempt to add with overflow")
  ELSE Ok((a + b) % modulus)

\* `n as u16` of a usize: truncation, never a panic.
as_u16(n) == n % 65536

\* ------------------------------------------------------------ Memory
\* Memory.inner is modelled as the sequence of its RAM_SIZE bytes: the byte at
\* address a is element a + 1.
byte_at(mem, a) == mem[a + 1]

Memory_get_instruction(mem, pos) ==
  IF pos >= RAM_SIZE THEN Err("index is out of bounds", pos)
  ELSE IF pos + 1 >= RAM_SIZE THEN Err("index is out of bounds", pos + 1)
  ELSE Ok(byte_at(mem, pos) * 256 + byte_at(mem, pos + 1))

\* The copy going to the start of the memory where it should go to pos.
copy_from_slice_at_start(mem, pos, data) ==
  data \o SubSeq(mem, Len(data) + 1, RAM_SIZE)

\* self.inner[pos .. pos + len].copy_from_slice(data), the range being inside
\* the memory.
copy_from_slice(mem, pos, data) ==
  SubSeq(mem, 1, pos) \o data \o SubSeq(mem, pos + Len(data) + 1, RAM_SIZE)

\* Memory::load with the capacity test written >= for >.
Memory_load_off_by_one(mem, pos, data, oc) ==
  LET sum == checked_add(pos, as_u16(Len(data)), 65536, oc) IN
  IF sum.tag = "Panic" THEN [res |-> sum, memory |-> mem]
  ELSE IF sum.arg >= as_u16(RAM_SIZE)
    THEN [res |-> Err("data does not fit into memory", Len(data)), memory |-> mem]
  ELSE [res |-> Ok(0), memory |-> copy_from_slice(mem, pos, data)]

\* Memory::load: the result and the memory after the call.
Memory_load(mem, pos, data, oc) ==
  LET sum == checked_add(pos, as_u16(Len(data)), 65536, oc) IN
  IF sum.tag = "Panic" THEN [res |-> sum, memory |-> mem]
  ELSE IF sum.arg > as_u16(RAM_SIZE)
    THEN [res |-> Err("data does not fit into memory", Len(data)), memory |-> mem]
  ELSE IF pos + Len(data) > RAM_SIZE
    THEN [res |-> Panic("range end index out of range for slice"), memory |-> mem]
  ELSE [res |-> Ok(0), memory |-> copy_from_slice(mem, pos, data)]

\* ------------------------------------------------------------ Display
\* Display::draw setting the pixel where it should toggle it.
Display_draw_set(d, x, y, flip) ==
  LET pos == x + y * DISPLAY_WIDTH IN
  IF pos > DISPLAY_WIDTH * DISPLAY_HEIGHT
    THEN [res |-> Err("is out of bounds for the display", pos), display |-> d]
  ELSE IF pos >= DISPLAY_WIDTH * DISPLAY_HEIGHT
    THEN [res |-> Panic("index out of bounds"), display |-> d]
  ELSE LET new == (d[pos] \/ flip) IN
       [res |-> Ok(IF d[pos] /\ ~new THEN 1 ELSE 0),
        display |-> [d EXCEPT ![pos] = new]]

\* Display::draw: the result (Ok carries 1 when the pixel went from on to
\* off, else 0) and the display after the call.
Display_draw(d, x, y, flip) ==
  LET pos == x + y * DISPLAY_WIDTH IN
  IF pos > DISPLAY_WIDTH * DISPLAY_HEIGHT
    THEN [res |-> Err("is out of bounds for the display", pos), display |-> d]
  ELSE IF pos >= DISPLAY_WIDTH * DISPLAY_HEIGHT
    THEN [res |-> Panic("index out of bounds"), display |-> d]
  ELSE LET new == (d[pos] # flip) IN
       [res |-> Ok(IF d[pos] /\ ~new THEN 1 ELSE 0),
        display |-> [d EXCEPT ![pos] = new]]

Display_clear == [p \in 0 .. DISPLAY_WIDTH * DISPLAY_HEIGHT - 1 |-> FALSE]

\* get_bits with the least significant bit first.
get_bits_lsb_first(byte) == [k \in 0 .. 7 |-> (byte \div (2 ^ k)) % 2 = 1]

\* get_bits: bits[k] is bit 7 - k of the byte, so bits[0] is the most
\* significant bit.
get_bits(byte) == [k \in 0 .. 7 |-> (byte \div (2 ^ (7 - k))) % 2 = 1]

\* ------------------------------------------------------------ Instruction
Ins(o, a, x, y, v, n) ==
  [op |-> o, address |-> a, x |-> x, y |-> y, value |-> v, count |-> n]

nibble1(w) == (w \div 4096) % 16
nibble2(w) == (w \div 256) % 16
nibble3(w) == (w \div 16) % 16
nibble4(w) == w % 16
low_byte(w) == w % 256
low_address(w) == w % 4096

\* Instruction::try_from: Ok with the instruction as the result's ins field,
\* or the "unknown instruction" error carrying the word.
Decoded(i) == [tag |-> "Ok", kind |-> "", arg |-> 0, ins |-> i]
Undecoded(r) == [tag |-> r.tag, kind |-> r.kind, arg |-> r.arg,
                 ins |-> Ins("None", 0, 0, 0, 0, 0)]

\* The decoder reading 8xkk as it reads 6xkk.
Instruction_try_from_8xkk(w) ==
  LET first == nibble1(w)
      second == nibble2(w)
      third == nibble3(w)
      fourth == nibble4(w)
      number == low_byte(w)
      address == low_address(w)
      unknown == Undecoded(Err("unknown instruction", w))
  IN CASE first = 0 ->
            IF second = 0 /\ third = 14 /\ fourth = 0
              THEN Decoded(Ins("ClearScreen", 0, 0, 0, 0, 0))
            ELSE IF second = 0 /\ third = 14 /\ fourth = 14
              THEN Decoded(Ins("Return", 0, 0, 0, 0, 0))
            ELSE unknown
       [] first = 1 -> Decoded(Ins("Jump", address, 0, 0, 0, 0))
       [] first = 2 -> Decoded(Ins("Call", address, 0, 0, 0, 0))
       [] first \in { 6, 8 } -> Decoded(Ins("SetRegister", 0, second, 0, number, 0))
       [] first = 7 -> Decoded(Ins("AddRegister", 0, second, 0, number, 0))
       [] first = 10 -> Decoded(Ins("SetIndex", address, 0, 0, 0, 0))
       [] first = 13 -> Decoded(Ins("Draw", 0, second, third, 0, fourth))
       [] OTHER -> unknown

Instruction_try_from(w) ==
  LET first == nibble1(w)
      second == nibble2(w)
      third == nibble3(w)
      fourth == nibble4(w)
      number == low_byte(w)
      address == low_address(w)
      unknown == Undecoded(Err("unknown instruction", w))
  IN CASE first = 0 ->
            IF second = 0 /\ third = 14 /\ fourth = 0
              THEN Decoded(Ins("ClearScreen", 0, 0, 0, 0, 0))
            ELSE IF second = 0 /\ third = 14 /\ fourth = 14
              THEN Decoded(Ins("Return", 0, 0, 0, 0, 0))
            ELSE unknown
       [] first = 1 -> Decoded(Ins("Jump", address, 0, 0, 0, 0))
       [] first = 2 -> Decoded(Ins("Call", address, 0, 0, 0, 0))
       [] first = 6 ->
            IF second > 15
              THEN Undecoded(Err("instruction contains invalid register", second))
              ELSE Decoded(Ins("SetRegister", 0, second, 0, number, 0))
       [] first = 7 -> Decoded(Ins("AddRegister", 0, second, 0, number, 0))
       [] first = 10 -> Decoded(Ins("SetIndex", address, 0, 0, 0, 0))
       [] first = 13 -> Decoded(Ins("Draw", 0, second, third, 0, fourth))
       [] OTHER -> unknown

\* ------------------------------------------------------------ Chip8
\* The outcome of a step on a machine c: the machine after it and the result.
Outcome(c, r) == [chip |-> c, res |-> r]

\* Chip8::fetch: Ok carries the fetched word.
Chip8_fetch(c, oc) ==
  LET got == Memory_get_instruction(c.memory, c.program_counter) IN
  IF got.tag # "Ok" THEN Outcome(c, got)
  ELSE LET next == checked_add(c.program_counter, 2, 65536, oc) IN
       IF next.tag # "Ok" THEN Outcome(c, next)
       ELSE Outcome([c EXCEPT !.program_counter = next.arg], got)

\* `self.program_counter += 2` of the four skip arms, taken when cond holds.
skip_if(c, cond, oc) ==
  IF ~cond THEN Outcome(c, Ok(0))
  ELSE LET next == checked_add(c.program_counter, 2, 65536, oc) IN
       IF next.tag # "Ok" THEN Outcome(c, next)
       ELSE Outcome([c EXCEPT !.program_counter = next.arg], Ok(0))

\* The column loop of Draw for one sprite row: bits k .. 7 are drawn from
\* column x on; the row ends after the bit that makes x reach
\* DISPLAY_WIDTH - 1.  Returns the display, the flag, x and the result.
RECURSIVE draw_bits(_, _, _, _, _, _)
draw_bits(d, flag, bits, k, x, y) ==
  IF k > 7 THEN [display |-> d, flag |-> flag, x |-> x, res |-> Ok(0)]
  ELSE LET r == Display_draw(d, x, y, bits[k]) IN
       IF r.res.tag # "Ok"
         THEN [display |-> r.display, flag |-> flag, x |-> x, res |-> r.res]
       ELSE LET flag2 == IF r.res.arg = 1 THEN 1 ELSE flag IN
            IF x + 1 >= DISPLAY_WIDTH - 1
              THEN [display |-> r.display, flag |-> flag2, x |-> x + 1, res |-> Ok(0)]
              ELSE draw_bits(r.display, flag2, bits, k + 1, x + 1, y)

\* The row loop of Draw: sprite rows memory[i], i < end, are drawn from row y
\* on; the loop ends early once x >= DISPLAY_WIDTH - 1 and
\* y >= DISPLAY_HEIGHT - 1 after a row.
RECURSIVE draw_rows(_, _, _, _, _, _, _)
draw_rows(mem, d, flag, i, end, start_x, y) ==
  IF i >= end THEN [display |-> d, flag |-> flag, res |-> Ok(0)]
  ELSE IF i >= RAM_SIZE
    THEN [display |-> d, flag |-> flag, res |-> Panic("index out of bounds")]
  ELSE LET row == draw_bits(d, flag, get_bits(byte_at(mem, i)), 0, start_x, y) IN
       IF row.res.tag # "Ok"
         THEN [display |-> row.display, flag |-> row.flag, res |-> row.res]
       ELSE IF row.x >= DISPLAY_WIDTH - 1 /\ y + 1 >= DISPLAY_HEIGHT - 1
         THEN [display |-> row.display, flag |-> row.flag, res |-> Ok(0)]
       ELSE draw_rows(mem, row.display, row.flag, i + 1, end, start_x, y + 1)

\* The origin of a Draw: the registers masked with width - 1 and height - 1.
draw_start_x(v) == v % DISPLAY_WIDTH

\* The y origin masked with width - 1 where it should be with height - 1.
draw_start_y_width(v) == v % DISPLAY_WIDTH

draw_start_y(v) == v % DISPLAY_HEIGHT

execute_Draw(c, ins, oc) ==
  LET start_x == draw_start_x(c.variable_registers[ins.x])
      start_y == draw_start_y(c.variable_registers[ins.y])
      end == checked_add(c.index_register, ins.count, 65536, oc)
      cleared == [c EXCEPT !.variable_registers[FLAG_REGISTER] = 0]
  IN IF end.tag # "Ok" THEN Outcome(cleared, end)
     ELSE LET r == draw_rows(c.memory, c.display, 0, c.index_register,
                             end.arg, start_x, start_y) IN
          Outcome([c EXCEPT !.variable_registers[FLAG_REGISTER] = r.flag,
                            !.display = r.display], r.res)

execute_AddRegister(c, ins, oc) ==
  LET sum == checked_add(c.variable_registers[ins.x], ins.value, 256, oc) IN
  IF sum.tag # "Ok" THEN Outcome(c, sum)
  ELSE Outcome([c EXCEPT !.variable_registers[ins.x] = sum.arg], Ok(0))

execute_Call(c, ins) ==
  Outcome([c EXCEPT !.stack = Append(@, c.program_counter),
                    !.program_counter = ins.address], Ok(0))

\* Return taking 0 for the return address when the stack is empty.
execute_Return_default(c) ==
  IF c.stack = << >> THEN Outcome([c EXCEPT !.program_counter = 0], Ok(0))
  ELSE Outcome([c EXCEPT !.program_counter = c.stack[Len(c.stack)],
                         !.stack = SubSeq(@, 1, Len(@) - 1)], Ok(0))

\* Return taking the oldest return address where it should take the newest.
execute_Return_oldest(c) ==
  IF c.stack = << >> THEN Outcome(c, Err("stack is empty", 0))
  ELSE Outcome([c EXCEPT !.program_counter = c.stack[1], !.stack = Tail(@)], Ok(0))

execute_Return(c) ==
  IF c.stack = << >> THEN Outcome(c, Err("stack is empty", 0))
  ELSE Outcome([c EXCEPT !.program_counter = c.stack[Len(c.stack)],
                         !.stack = SubSeq(@, 1, Len(@) - 1)], Ok(0))

\* Jump adding the address to the program counter where it should replace it.
execute_Jump_relative(c, ins) ==
  Outcome([c EXCEPT !.program_counter = (@ + ins.address) % 65536], Ok(0))

execute_Jump(c, ins) == Outcome([c EXCEPT !.program_counter = ins.address], Ok(0))

\* Chip8::execute
Chip8_execute(c, ins, oc) ==
  LET V == c.variable_registers IN
  CASE ins.op = "ClearScreen" -> Outcome([c EXCEPT !.display = Display_clear], Ok(0))
    [] ins.op = "Jump" -> execute_Jump(c, ins)
    [] ins.op = "Call" -> execute_Call(c, ins)
    [] ins.op = "Return" -> execute_Return(c)
    [] ins.op = "SkipEqVal" -> skip_if(c, V[ins.x] = ins.value, oc)
    [] ins.op = "SkipNeVal" -> skip_if(c, V[ins.x] # ins.value, oc)
    [] ins.op = "SkipEqReg" -> skip_if(c, V[ins.x] = V[ins.y], oc)
    [] ins.op = "SkipNeReg" -> skip_if(c, V[ins.x] # V[ins.y], oc)
    [] ins.op = "SetRegister" ->
         Outcome([c EXCEPT !.variable_registers[ins.x] = ins.value], Ok(0))
    [] ins.op = "AddRegister" -> execute_AddRegister(c, ins, oc)
    [] ins.op = "SetIndex" -> Outcome([c EXCEPT !.index_register = ins.address], Ok(0))
    [] ins.op = "Draw" -> execute_Draw(c, ins, oc)

\* One iteration of the loop of Chip8::update: fetch, decode, execute, each
\* ending the iteration with its failure (the ? operator).  word is the
\* fetched word, or -1 when the fetch failed.
tick(c, oc) ==
  LET f == Chip8_fetch(c, oc) IN
  IF f.res.tag # "Ok" THEN [chip |-> f.chip, res |-> f.res, word |-> -1]
  ELSE LET d == Instruction_try_from(f.res.arg) IN
       IF d.tag # "Ok"
         THEN [chip |-> f.chip, res |-> Err(d.kind, d.arg), word |-> f.res.arg]
       ELSE LET e == Chip8_execute(f.chip, d.ins, oc) IN
            [chip |-> e.chip, res |-> e.res, word |-> f.res.arg]

\* The loop of update going on to the next iteration after a failure.
loop_remaining_continue(r, left) == left - 1

\* The loop of Chip8::update after an iteration with result r, `left`
\* iterations being left before it: the iterations left after it (none after
\* a failure, which the ? operator returns at once), and what the call has
\* returned by then.
loop_remaining(r, left) == IF r.tag # "Ok" THEN 0 ELSE left - 1
loop_result(r, left) ==
  IF r.tag # "Ok" THEN r ELSE IF left = 1 THEN Ok(0) ELSE Pending

\* load_program starting the machine afresh: registers, index register,
\* stack and display reset with the program counter.
Chip8_load_program_reset(c, data, oc) ==
  LET l == Memory_load(c.memory, PROGRAM_BASE, data, oc) IN
  IF l.res.tag = "Err"
    THEN Outcome(c, Err("could not load program", l.res.arg))
  ELSE IF l.res.tag = "Panic" THEN Outcome(c, l.res)
  ELSE Outcome([c EXCEPT !.memory = l.memory, !.program_counter = PROGRAM_BASE,
                         !.index_register = 0, !.stack = << >>,
                         !.variable_registers = [r \in DOMAIN @ |-> 0],
                         !.display = [q \in DOMAIN @ |-> FALSE]],
               Ok(0))

\* Chip8::load_program
Chip8_load_program(c, data, oc) ==
  LET l == Memory_load(c.memory, PROGRAM_BASE, data, oc) IN
  IF l.res.tag = "Err"
    THEN Outcome(c, Err("could not load program", l.res.arg))
  ELSE IF l.res.tag = "Panic" THEN Outcome(c, l.res)
  ELSE Outcome([c EXCEPT !.memory = l.memory, !.program_counter = PROGRAM_BASE],
               Ok(0))

\* on_input starting the program again as it records the event.
Chip8_on_input_restart(c, key, down) ==
  [c EXCEPT !.input = Append(@, << key, down >>),
            !.program_counter = PROGRAM_BASE]

\* Chip8::on_input
Chip8_on_input(c, key, down) ==
  [c EXCEPT !.input = Append(@, << key, down >>)]

\* Chip8::new: the machine it builds (the font always fits, so it returns Ok).
Chip8_new ==
  LET zero == [a \in 1 .. RAM_SIZE |-> 0] IN
  [ program_counter |-> 0, index_register |-> 0, stack |-> << >>,
    variable_registers |-> [r \in 0 .. VARIABLE_REGISTER_SIZE - 1 |-> 0],
    delay_timer |-> 0, sound_timer |-> 0, input |-> << >>,
    memory |-> Memory_load(zero, FONT_BASE, FONT, TRUE).memory,
    display |-> Display_clear ]

\* ------------------------------------------------------------ programs
\* Instruction words, and a program's bytes (each word big-endian).
JumpWord(a) == 4096 + a
CallWord(a) == 8192 + a
SetRegisterWord(x, v) == 24576 + x * 256 + v
AddRegisterWord(x, v) == 28672 + x * 256 + v
SetIndexWord(a) == 40960 + a
DrawWord(x, y, n) == 53248 + x * 256 + y * 16 + n
ReturnWord == 238
ClearScreenWord == 224

Bytes(words) ==
  [i \in 1 .. 2 * Len(words) |->
     IF i % 2 = 1 THEN words[(i + 1) \div 2] \div 256 ELSE words[i \div 2] % 256]

Fill(n, byte) == [i \in 1 .. n |-> byte]

\* Programs at the capacity boundary and at the lengths where the 16-bit sum
\* of Memory::load overflows or the length is truncated.
\* A program that sets the index register and a register, draws and then
\* calls itself for ever, so that every part of the machine is changed.
BusyProgram ==
  Bytes(<< SetIndexWord(FONT_BASE), SetRegisterWord(0, 5), DrawWord(0, 0, 5),
           CallWord(PROGRAM_BASE + 6) >>)

CapacityPrograms ==
  << Fill(RAM_SIZE - PROGRAM_BASE, 18), Fill(RAM_SIZE - PROGRAM_BASE + 1, 96),
     Fill(65536 - PROGRAM_BASE, 1), Fill(65536, 1), BusyProgram, << >> >>

\* Jumps to the first and last addresses, to the last word of memory and to
\* the jump itself.
JumpTargets == << 0, PROGRAM_BASE, RAM_SIZE - 2, RAM_SIZE - 1 >>
JumpPrograms == [i \in DOMAIN JumpTargets |-> Bytes(<< JumpWord(JumpTargets[i]) >>)]

\* Two nested calls and their returns; a return with nothing to return to; a
\* call of itself; a call to the last address.
CallPrograms ==
  << Bytes(<< CallWord(PROGRAM_BASE + 4), JumpWord(PROGRAM_BASE + 2),
              CallWord(PROGRAM_BASE + 8), ReturnWord, ReturnWord >>),
     Bytes(<< ReturnWord >>),
     Bytes(<< CallWord(PROGRAM_BASE) >>),
     Bytes(<< CallWord(RAM_SIZE - 1) >>) >>

\* V0 := 5, then one of 3xkk, 4xkk, 5xy0, 9xy0.
SkipPrograms ==
  << Bytes(<< SetRegisterWord(0, 5), 12288 + 5 >>),
     Bytes(<< SetRegisterWord(0, 5), 16384 + 6 >>),
     Bytes(<< SetRegisterWord(0, 5), 20480 + 16 >>),
     Bytes(<< SetRegisterWord(0, 5), 36864 + 16 >>) >>

\* Vx := v, then Vx += k: sums above 255 in V0 and in the flag register, a
\* sum of exactly 255 and a small sum.
AddPrograms ==
  << Bytes(<< SetRegisterWord(0, 250), AddRegisterWord(0, 10) >>),
     Bytes(<< SetRegisterWord(15, 255), AddRegisterWord(15, 1) >>),
     Bytes(<< SetRegisterWord(15, 9), SetRegisterWord(3, 250), AddRegisterWord(3, 5) >>),
     Bytes(<< AddRegisterWord(1, 4), AddRegisterWord(1, 4) >>) >>

\* The same Draw several times in a row: the glyph "0" at (V0, V0), three
\* times; the glyph "1" at (2, 2), twice; a sprite that leaves the display at
\* the bottom in column 1, twice; a Draw whose x register is the flag
\* register, twice.
DrawPrograms ==
  << Bytes(<< SetIndexWord(FONT_BASE), DrawWord(0, 0, 5), DrawWord(0, 0, 5),
              DrawWord(0, 0, 5) >>),
     Bytes(<< SetIndexWord(FONT_BASE + 5), SetRegisterWord(0, 2),
              DrawWord(0, 0, 5), DrawWord(0, 0, 5) >>),
     Bytes(<< SetIndexWord(FONT_BASE), SetRegisterWord(0, 1), SetRegisterWord(1, 30),
              DrawWord(0, 1, 5), DrawWord(0, 1, 5) >>),
     Bytes(<< SetIndexWord(FONT_BASE), SetRegisterWord(15, 5),
              DrawWord(15, 0, 5), DrawWord(15, 0, 5) >>) >>

\* Sprites at the edges: one that leaves the display at the bottom in
\* column 0; one read past the end of memory; one that reaches the right and
\* the bottom edge.
ClipPrograms ==
  << Bytes(<< SetIndexWord(FONT_BASE), SetRegisterWord(1, 31), DrawWord(0, 1, 2) >>),
     Bytes(<< SetIndexWord(RAM_SIZE - 1), DrawWord(0, 0, 2) >>),
     Bytes(<< SetIndexWord(FONT_BASE), SetRegisterWord(0, 60), SetRegisterWord(1, 28),
              DrawWord(0, 1, 5) >>) >>

\* A program that points the index register at the glyph "0" and then jumps
\* to itself, and the ROM 00E0, 600C, 6108, D015.
PointAtGlyph == Bytes(<< SetIndexWord(FONT_BASE), JumpWord(PROGRAM_BASE + 2) >>)
GlyphRom ==
  Bytes(<< ClearScreenWord, SetRegisterWord(0, 12), SetRegisterWord(1, 8),
           DrawWord(0, 1, 5) >>)
GlyphPrograms == << PointAtGlyph, GlyphRom >>

\* Draws of the glyph "0" whose registers give the origin: (60, 0), where the
\* glyph reaches the last column; (70, 40), past the width and the height;
\* (255, 255), one row; (69, 32) with the flag register as the x register.
OriginPrograms ==
  << Bytes(<< SetIndexWord(FONT_BASE), SetRegisterWord(0, 60), DrawWord(0, 1, 5) >>),
     Bytes(<< SetIndexWord(FONT_BASE), SetRegisterWord(0, 70), SetRegisterWord(1, 40),
              DrawWord(0, 1, 5) >>),
     Bytes(<< SetIndexWord(FONT_BASE), SetRegisterWord(0, 255),
              SetRegisterWord(1, 255), DrawWord(0, 1, 1) >>),
     Bytes(<< SetIndexWord(FONT_BASE), SetRegisterWord(15, 69),
              SetRegisterWord(1, 32), DrawWord(15, 1, 5) >>) >>

\* Programs with a tick that fails: a program that fills the memory, jumps to
\* its last word and sets a register there; a word of no instruction (8120)
\* between two register settings; a Call, its Return and one Return more; a
\* Draw that leaves the display at the bottom in column 1.
UnknownWord == 32768 + 256 + 32
LastWordProgram ==
  Bytes(<< JumpWord(RAM_SIZE - 2) >>) \o Fill(RAM_SIZE - PROGRAM_BASE - 4, 0)
    \o Bytes(<< SetRegisterWord(0, 5) >>)
FaultPrograms ==
  << LastWordProgram,
     Bytes(<< SetRegisterWord(0, 5), UnknownWord, SetRegisterWord(1, 7) >>),
     Bytes(<< CallWord(PROGRAM_BASE + 4), ReturnWord, ReturnWord,
              SetRegisterWord(1, 7) >>),
     Bytes(<< SetIndexWord(FONT_BASE), SetRegisterWord(0, 1), SetRegisterWord(1, 30),
              DrawWord(0, 1, 5) >>) >>

\* The programs of a menu, by the menu's name.
Programs(m) ==
  CASE m = "capacity" -> CapacityPrograms
    [] m = "jump" -> JumpPrograms
    [] m = "call" -> CallPrograms
    [] m = "skip" -> SkipPrograms
    [] m = "add" -> AddPrograms
    [] m = "draw" -> DrawPrograms
    [] m = "clip" -> ClipPrograms
    [] m = "glyph" -> GlyphPrograms
    [] m = "origin" -> OriginPrograms
    [] m = "fault" -> FaultPrograms

Menus == { "capacity", "jump", "call", "skip", "add", "draw", "clip", "glyph",
           "origin", "fault" }

\* The keys the driver reports.  A key goes down and up in turn, so the
\* event for a key is down exactly when its last event was not.
Keys == { "a" }
RECURSIVE KeyIsDown(_, _)
KeyIsDown(events, key) ==
  IF events = << >> THEN FALSE
  ELSE IF events[Len(events)][1] = key THEN events[Len(events)][2]
  ELSE KeyIsDown(SubSeq(events, 1, Len(events) - 1), key)

\* ------------------------------------------------------------ steps
\* What the history variables record of a step that acts on the machine (a
\* load, an input event, a tick).
\* name is the operation; word the word a tick fetched (-1 when none); at the
\* program counter before the step; rom the number in the menu of the program
\* a load was given (0 when none); res the result of the step.
Step(name, word, at, rom, res) ==
  [name |-> name, word |-> word, at |-> at, rom |-> rom, res |-> res]

Earlier == [op |-> op, display |-> prev.display,
            variable_registers |-> prev.variable_registers,
            index_register |-> prev.index_register,
            program_counter |-> prev.program_counter,
            stack |-> prev.stack, result |-> result]

KeyGoesDown(key) == ~KeyIsDown(input, key)

Idle == remaining = 0 /\ result.tag # "Panic"

\* A newly constructed machine but for the index register, which points at
\* the glyph "0", and for GlyphRom, which is loaded and about to run.
GlyphMachine ==
  [Chip8_new EXCEPT !.index_register = FONT_BASE,
                    !.program_counter = PROGRAM_BASE,
                    !.memory = copy_from_slice(@, PROGRAM_BASE, GlyphRom)]

\* The machine c is that machine, the input events recorded aside, which no
\* instruction reads.
GlyphStart(c) == [c EXCEPT !.input = << >>] = GlyphMachine

\* The build is chosen once, before the program starts; the choice is made
\* in the model at the first step whose outcome depends on it (differs),
\* which leaves the machine's behaviours as they are.
Builds == IF overflow_checks = "any" THEN BOOLEAN ELSE { overflow_checks = "on" }
Decide(oc, differs) ==
  IF ~differs THEN overflow_checks ELSE IF oc THEN "on" ELSE "off"

Install(c) ==
  /\ program_counter' = c.program_counter
  /\ index_register' = c.index_register
  /\ stack' = c.stack
  /\ variable_registers' = c.variable_registers
  /\ delay_timer' = c.delay_timer
  /\ sound_timer' = c.sound_timer
  /\ input' = c.input
  /\ memory' = c.memory
  /\ display' = c.display

Record(step) ==
  /\ op' = step
  /\ prev' = Machine
  /\ earlier' = Earlier

Init ==
  /\ overflow_checks = "any"
  /\ ticks \in TickCounts
  /\ menu \in Menus
  /\ loads = 0 /\ updates = 0
  /\ remaining = 0 /\ executed = 0
  /\ call = "new"
  /\ result = Ok(0)
  /\ op = Step("new", -1, 0, 0, Ok(0))
  /\ program_counter = Chip8_new.program_counter
  /\ index_register = Chip8_new.index_register
  /\ stack = Chip8_new.stack
  /\ variable_registers = Chip8_new.variable_registers
  /\ delay_timer = Chip8_new.delay_timer
  /\ sound_timer = Chip8_new.sound_timer
  /\ input = Chip8_new.input
  /\ memory = Chip8_new.memory
  /\ display = Chip8_new.display
  /\ prev = Chip8_new
  /\ earlier = [op |-> Step("new", -1, 0, 0, Ok(0)), display |-> Chip8_new.display,
                variable_registers |-> Chip8_new.variable_registers,
                index_register |-> 0, program_counter |-> 0, stack |-> << >>,
                result |-> Ok(0)]
  /\ glyph_entry = FALSE

\* The driver calls load_program(data).
LoadProgram ==
  /\ Idle /\ loads < MaxLoads
  /\ \E rom \in DOMAIN Programs(menu), oc \in Builds :
       LET data == Programs(menu)[rom]
           o == Chip8_load_program(Machine, data, oc) IN
       /\ Install(o.chip)
       /\ result' = o.res
       /\ Record(Step("load", -1, program_counter, rom, o.res))
       /\ overflow_checks' = Decide(oc, Chip8_load_program(Machine, data, ~oc) # o)
  /\ loads' = loads + 1
  /\ call' = "load_program"
  /\ UNCHANGED << ticks, menu, updates, remaining, executed, glyph_entry >>

\* The driver calls on_input(key, down).
OnInput ==
  /\ Idle /\ Len(input) < MaxInputs
  /\ \E key \in Keys :
       /\ Install(Chip8_on_input(Machine, key, KeyGoesDown(key)))
       /\ Record(Step("input", -1, program_counter, 0, Ok(0)))
  /\ call' = "on_input"
  /\ result' = Ok(0)
  /\ UNCHANGED << overflow_checks, ticks, menu, loads, updates, remaining, executed,
                  glyph_entry >>

\* The driver calls update: the loop of self.ticks iterations is entered (and
\* left at once, with Ok, when ticks is 0).
Update ==
  /\ Idle /\ updates < MaxUpdates
  /\ updates' = updates + 1
  /\ call' = "update"
  /\ remaining' = ticks
  /\ executed' = 0
  /\ result' = IF ticks = 0 THEN Ok(0) ELSE Pending
  /\ Install(Machine)
  /\ glyph_entry' = GlyphStart(Machine)
  /\ UNCHANGED << overflow_checks, ticks, menu, loads, op, prev, earlier >>

\* One iteration of the loop of update.  A failure ends the call with that
\* failure; the last iteration ends it with Ok.
Tick ==
  /\ remaining > 0
  /\ \E oc \in Builds :
     LET t == tick(Machine, oc) IN
     /\ overflow_checks' = Decide(oc, tick(Machine, ~oc) # t)
     /\ Install(t.chip)
     /\ Record(Step("tick", t.word, program_counter, 0, t.res))
     /\ remaining' = loop_remaining(t.res, remaining)
     /\ result' = loop_result(t.res, remaining)
     /\ executed' = IF t.res.tag = "Ok" THEN executed + 1 ELSE executed
  /\ UNCHANGED << ticks, menu, loads, updates, call, glyph_entry >>

Next == LoadProgram \/ OnInput \/ Update \/ Tick

Spec == Init /\ [][Next]_vars

\* The same machine with the driver choosing from one family of programs.
InitLoad == Init /\ menu = "capacity"
InitFlow == Init /\ menu \in { "jump", "call", "skip" }
InitAdd == Init /\ menu = "add"
InitDraw == Init /\ menu = "draw"
InitClip == Init /\ menu = "clip"
InitGlyph == Init /\ menu = "glyph"
InitOrigin == Init /\ menu = "origin"
InitFault == Init /\ menu = "fault"

SpecLoad == InitLoad /\ [][Next]_vars
SpecFlow == InitFlow /\ [][Next]_vars
SpecAdd == InitAdd /\ [][Next]_vars
SpecDraw == InitDraw /\ [][Next]_vars
SpecClip == InitClip /\ [][Next]_vars
SpecGlyph == InitGlyph /\ [][Next]_vars
SpecOrigin == InitOrigin /\ [][Next]_vars
SpecFault == InitFault /\ [][Next]_vars

\* ------------------------------------------------------------ claims
\* The program the last step loaded, when that step was a load.
LoadedData == Programs(menu)[op.rom]

\* The last step was a tick that fetched a word, and the tick completed.
TickDone == op.name = "tick" /\ op.word >= 0
TickOk == TickDone /\ op.res.tag = "Ok"

\* PC, registers, index register, stack, memory and display aside, nothing of
\* the machine is named by the claims below; Unchanged(fields) says that the
\* last step left the named fields of the machine as they were.
Unchanged(fields) == \A f \in fields : Machine[f] = prev[f]

\* C1: a program of exactly RAM_SIZE - 0x200 = 3584 bytes loads (Ok, PC =
\* 0x200, the bytes in memory from 0x200 on); a program of 3585 bytes fails
\* with the capacity error and leaves memory and PC as they were.
C1_LoadAtCapacityBoundary ==
  op.name = "load" =>
    /\ Len(LoadedData) = RAM_SIZE - PROGRAM_BASE =>
          /\ op.res = Ok(0)
          /\ program_counter = PROGRAM_BASE
          /\ SubSeq(memory, PROGRAM_BASE + 1, RAM_SIZE) = LoadedData
    /\ Len(LoadedData) = RAM_SIZE - PROGRAM_BASE + 1 =>
          /\ op.res = Err("could not load program", Len(LoadedData))
          /\ Unchanged({ "memory", "program_counter" })

\* A load of 3585 bytes has failed in a machine that holds an earlier program
\* of 3584 bytes and has run it (PC is no longer 0x200).
C1_Witness ==
  /\ op.name = "load" /\ Len(LoadedData) = RAM_SIZE - PROGRAM_BASE + 1
  /\ op.res.tag = "Err"
  /\ byte_at(memory, RAM_SIZE - 1) = 18
  /\ program_counter # PROGRAM_BASE

\* C2: load_program is total over program lengths: it returns Ok exactly
\* when 0x200 + L <= 4096 and otherwise returns the capacity error with the
\* memory unmodified; it never ends abnormally.  (Stated as claimed; the code
\* violates it.)
C2_LoadIsTotal ==
  op.name = "load" =>
    IF PROGRAM_BASE + Len(LoadedData) <= RAM_SIZE
      THEN op.res = Ok(0)
      ELSE /\ op.res = Err("could not load program", Len(LoadedData))
           /\ Unchanged({ "memory" })

\* C3: a successful load of L bytes, in any state, sets PC to 0x200 and
\* overwrites memory[0x200 .. 0x200 + L) only; registers, index register,
\* stack, display, timers, input record and the rest of memory are unchanged.
C3_LoadChangesOnlyProgramAndPC ==
  op.name = "load" /\ op.res.tag = "Ok" =>
    LET n == Len(LoadedData) IN
    /\ program_counter = PROGRAM_BASE
    /\ SubSeq(memory, PROGRAM_BASE + 1, PROGRAM_BASE + n) = LoadedData
    /\ SubSeq(memory, 1, PROGRAM_BASE) = SubSeq(prev.memory, 1, PROGRAM_BASE)
    /\ SubSeq(memory, PROGRAM_BASE + n + 1, RAM_SIZE)
         = SubSeq(prev.memory, PROGRAM_BASE + n + 1, RAM_SIZE)
    /\ Len(memory) = RAM_SIZE
    /\ Unchanged({ "variable_registers", "index_register", "stack", "display",
                   "delay_timer", "sound_timer", "input" })

\* A program of 3584 bytes has been loaded into a machine in mid-run: with a
\* register and the index register set, a return address on the stack, pixels
\* on, an input event recorded and the PC away from 0x200.
C3_Witness ==
  /\ op.name = "load" /\ op.res.tag = "Ok"
  /\ Len(LoadedData) = RAM_SIZE - PROGRAM_BASE
  /\ prev.program_counter # PROGRAM_BASE
  /\ variable_registers[0] = 5 /\ index_register = FONT_BASE
  /\ stack # << >> /\ input # << >>
  /\ \E q \in DOMAIN display : display[q]
  /\ byte_at(prev.memory, PROGRAM_BASE) # byte_at(memory, PROGRAM_BASE)

\* C4: an update of N ticks stops at the first tick that fails: the call
\* returns that failure and runs none of the ticks left, and what the ticks
\* before it did stays (a failing fetch, decode or Return changes nothing but
\* the PC); when no tick fails the call runs exactly N ticks and returns Ok.
C4_UpdateStopsAtFirstFailure ==
  call = "update" =>
    /\ (result.tag = "Pending") = (remaining > 0)
    /\ result.tag = "Pending" => executed + remaining = ticks
    /\ result.tag = "Ok" => executed = ticks
    /\ result.tag = "Err" =>
          /\ op.name = "tick" /\ remaining = 0 /\ executed < ticks
          /\ result.kind # "is out of bounds for the display" =>
                Unchanged({ "variable_registers", "index_register", "stack",
                            "display", "memory" })

\* An update of MaxTicks ticks has failed at its second tick: one tick was
\* run, its effect (V0 = 5) is kept, and the ticks left were not run.
C4_Witness ==
  /\ call = "update" /\ result.tag = "Err" /\ remaining = 0
  /\ ticks = MaxTicks /\ executed = 1
  /\ variable_registers[0] = 5

\* C5: every fault during update comes back as a returned failure; no tick
\* ends the interpreter abnormally.  (Stated as claimed; the code violates
\* it.)
C5_NoTickAborts == op.name = "tick" => op.res.tag # "Panic"

\* C6: a tick that fetches 1nnn leaves PC = nnn (the increment of the fetch
\* is overwritten, not added to) and changes no register, stack entry, memory
\* byte or pixel.
C6_JumpSetsProgramCounter ==
  TickDone /\ nibble1(op.word) = 1 =>
    /\ op.res = Ok(0)
    /\ program_counter = low_address(op.word)
    /\ Unchanged({ "variable_registers", "index_register", "stack", "memory",
                   "display" })

\* A tick at 0x200 has fetched the jump to the last address, 0xFFF.
C6_Witness ==
  /\ TickDone /\ op.word = JumpWord(RAM_SIZE - 1) /\ op.at = PROGRAM_BASE
  /\ program_counter = RAM_SIZE - 1

\* C7: Call and Return are matched last in, first out: a Call(a) fetched at p
\* pushes p + 2 and sets PC to a; a Return takes the newest entry off the
\* stack and sets PC to it, so a Return right after the Call at p resumes at
\* p + 2 with the stack as it was before that Call, at any depth.
C7_CallReturnLastInFirstOut ==
  TickDone =>
    /\ nibble1(op.word) = 2 =>
          /\ op.res = Ok(0)
          /\ stack = Append(prev.stack, op.at + 2)
          /\ program_counter = low_address(op.word)
    /\ op.word = ReturnWord /\ op.res.tag = "Ok" =>
          /\ prev.stack = Append(stack, program_counter)
          /\ (earlier.op.name = "tick" /\ earlier.op.word >= 0
                /\ nibble1(earlier.op.word) = 2) =>
                /\ program_counter = earlier.op.at + 2
                /\ stack = earlier.stack

\* A Return has been run two calls deep, right after the inner Call at
\* 0x204: it resumes at 0x206 and leaves the outer return address, 0x202.
C7_Witness ==
  /\ TickDone /\ op.word = ReturnWord /\ op.res.tag = "Ok"
  /\ Len(prev.stack) = 2
  /\ earlier.op.name = "tick" /\ earlier.op.word = CallWord(PROGRAM_BASE + 8)
  /\ program_counter = PROGRAM_BASE + 6
  /\ stack = << PROGRAM_BASE + 2 >>

\* The condition a skip word tests, on registers V.
IsSkipWord(w) ==
  \/ nibble1(w) \in { 3, 4 }
  \/ nibble1(w) \in { 5, 9 } /\ nibble4(w) = 0
SkipCondition(w, V) ==
  CASE nibble1(w) = 3 -> V[nibble2(w)] = low_byte(w)
    [] nibble1(w) = 4 -> V[nibble2(w)] # low_byte(w)
    [] nibble1(w) = 5 -> V[nibble2(w)] = V[nibble3(w)]
    [] nibble1(w) = 9 -> V[nibble2(w)] # V[nibble3(w)]

\* C8: a tick that fetches 3xkk, 4xkk, 5xy0 or 9xy0 succeeds and advances PC
\* by 4 when the tested condition holds and by 2 otherwise.  (Stated as
\* claimed; the code violates it.)
C8_SkipsRunFromBytecode ==
  TickDone /\ IsSkipWord(op.word) =>
    /\ op.res = Ok(0)
    /\ program_counter =
         op.at + (IF SkipCondition(op.word, prev.variable_registers) THEN 4 ELSE 2)

\* C9: a tick that fetches 7xkk completes and sets Vx to (Vx + kk) mod 256,
\* changing no other register.  (Stated as claimed; the code violates it.)
C9_AddRegisterWraps ==
  TickDone /\ nibble1(op.word) = 7 =>
    /\ op.res = Ok(0)
    /\ variable_registers =
         [prev.variable_registers EXCEPT
            ![nibble2(op.word)] = (@ + low_byte(op.word)) % 256]

\* The last two steps were ticks that ran the same Draw word, with the same
\* index register and the same origin, and neither ended abnormally.
SameDrawTwice ==
  /\ TickDone /\ nibble1(op.word) = 13 /\ op.res.tag # "Panic"
  /\ earlier.op.name = "tick" /\ earlier.op.word = op.word
  /\ earlier.index_register = prev.index_register
  /\ draw_start_x(earlier.variable_registers[nibble2(op.word)])
       = draw_start_x(prev.variable_registers[nibble2(op.word)])
  /\ draw_start_y(earlier.variable_registers[nibble3(op.word)])
       = draw_start_y(prev.variable_registers[nibble3(op.word)])

\* C10: the same Draw (same sprite, same origin) run twice in a row leaves
\* every pixel as it was before the first of the two, and the flag register
\* is 1 after the second exactly when the second turned a pixel off.
C10_DrawTwiceRestoresDisplay ==
  SameDrawTwice =>
    /\ display = earlier.display
    /\ variable_registers[FLAG_REGISTER] \in { 0, 1 }
    /\ (variable_registers[FLAG_REGISTER] = 1)
         = (\E q \in DOMAIN display : prev.display[q] /\ ~display[q])

\* The same Draw has been run twice over a display that had pixels on, some
\* of them under the sprite: the second Draw turned pixels off (flag 1) that
\* the first had turned on, and pixels are on again that the first had
\* turned off.
C10_Witness ==
  /\ SameDrawTwice /\ op.res.tag = "Ok"
  /\ variable_registers[FLAG_REGISTER] = 1
  /\ earlier.variable_registers[FLAG_REGISTER] = 0
  /\ \E q \in DOMAIN display : display[q] /\ ~prev.display[q]
  /\ \E q \in DOMAIN display : ~display[q] /\ prev.display[q]

\* The last step was the fourth tick of an update called on a new machine
\* with I = 0x050 and GlyphRom loaded.
GlyphRun ==
  /\ call = "update" /\ glyph_entry
  /\ TickDone /\ executed = 4 /\ op.at = PROGRAM_BASE + 6

\* Bit 7 - (x - 12) of row y - 8 of the glyph "0", for a pixel of the 8 by 5
\* area at (12, 8); FALSE for every other pixel.
GlyphBit(x, y) ==
  /\ 12 <= x /\ x < 20 /\ 8 <= y /\ y < 13
  /\ (FONT[y - 8 + 1] \div (2 ^ (7 - (x - 12)))) % 2 = 1

\* C11: from a new machine with I = 0x050 and the ROM 00E0, 600C, 6108, D015
\* loaded, an update of 4 ticks succeeds; after it the pixel (x, y), at index
\* x + 64 y, is on exactly when it is a 1 bit of the glyph "0" placed at
\* (12, 8), V0 = 12, V1 = 8, V15 = 0 and PC = 0x208.
C11_GlyphEndToEnd ==
  GlyphRun =>
    /\ op.res = Ok(0)
    /\ ticks = 4 => result = Ok(0) /\ remaining = 0
    /\ \A x \in 0 .. DISPLAY_WIDTH - 1, y \in 0 .. DISPLAY_HEIGHT - 1 :
          display[x + y * DISPLAY_WIDTH] = GlyphBit(x, y)
    /\ variable_registers[0] = 12 /\ variable_registers[1] = 8
    /\ variable_registers[FLAG_REGISTER] = 0
    /\ program_counter = PROGRAM_BASE + 8

\* An update of 4 ticks has returned Ok on such a machine; the corners of the
\* glyph are on and its middle is off.
C11_Witness ==
  /\ GlyphRun /\ ticks = 4 /\ result = Ok(0)
  /\ display[12 + 8 * DISPLAY_WIDTH] /\ display[15 + 12 * DISPLAY_WIDTH]
  /\ ~display[13 + 9 * DISPLAY_WIDTH] /\ ~display[16 + 8 * DISPLAY_WIDTH]

\* The last step was a tick that ran a Draw whose sprite rows lie in memory.
DrawTick ==
  /\ TickDone /\ nibble1(op.word) = 13
  /\ prev.index_register + nibble4(op.word) <= RAM_SIZE

\* The registers that Draw names, as they were before it, and its row count.
DrawVx == prev.variable_registers[nibble2(op.word)]
DrawVy == prev.variable_registers[nibble3(op.word)]
DrawCount == nibble4(op.word)

\* The origin of that Draw on a display of DISPLAY_WIDTH columns and
\* DISPLAY_HEIGHT rows.
OriginX == DrawVx % DISPLAY_WIDTH
OriginY == DrawVy % DISPLAY_HEIGHT

\* Bit c (0 the most significant) of row r of the sprite of that Draw.
SpriteBit(r, c) ==
  (byte_at(prev.memory, prev.index_register + r) \div (2 ^ (7 - c))) % 2 = 1

\* The display after that Draw is the display before it with the sprite
\* XOR-ed onto it at (sx, sy), the sprite's pixels beyond the last column and
\* the last row left out.
SpriteClippedAt(sx, sy) ==
  \A x \in 0 .. DISPLAY_WIDTH - 1, y \in 0 .. DISPLAY_HEIGHT - 1 :
    display[x + y * DISPLAY_WIDTH]
      = (prev.display[x + y * DISPLAY_WIDTH]
           # (/\ sx <= x /\ x < sx + 8 /\ sy <= y /\ y < sy + DrawCount
              /\ SpriteBit(y - sy, x - sx)))

\* C12: a Draw whose sprite fits vertically (start_y + n <= 32) completes and
\* XOR-draws bit c of each row at column start_x + c for every c with
\* start_x + c <= 63, the last column included, and touches no other pixel.
\* (Stated as claimed; the code violates it.)
C12_HorizontalClipIsExact ==
  DrawTick /\ OriginY + DrawCount <= DISPLAY_HEIGHT =>
    /\ op.res = Ok(0)
    /\ SpriteClippedAt(OriginX, OriginY)

\* C13: a Draw whose sprite does not fit vertically (start_y + n > 32)
\* completes successfully, having drawn the rows start_y .. 31 only.  (Stated
\* as claimed; the code violates it.)
C13_VerticalClipCompletes ==
  DrawTick /\ OriginY + DrawCount > DISPLAY_HEIGHT =>
    /\ op.res = Ok(0)
    /\ SpriteClippedAt(OriginX, OriginY)

\* The last step was a Draw that read its first sprite row and did not end
\* abnormally.
DrawBegun == DrawTick /\ DrawCount >= 1 /\ op.res.tag # "Panic"

\* The sprite of that Draw was drawn from (sx, sy) on: the pixel (sx, sy) is
\* on the display and was toggled exactly when the first bit of the first
\* row is 1, and no pixel to the left of sx or above sy was changed.
DrawnFrom(sx, sy) ==
  /\ sx < DISPLAY_WIDTH /\ sy < DISPLAY_HEIGHT
  /\ display[sx + sy * DISPLAY_WIDTH]
       = (prev.display[sx + sy * DISPLAY_WIDTH] # SpriteBit(0, 0))
  /\ \A x \in 0 .. DISPLAY_WIDTH - 1, y \in 0 .. DISPLAY_HEIGHT - 1 :
        display[x + y * DISPLAY_WIDTH] # prev.display[x + y * DISPLAY_WIDTH]
          => sx <= x /\ sy <= y

\* The flag register was cleared before the first pixel: whatever it held, it
\* is 1 after the Draw exactly when the Draw turned a pixel off, and else 0.
FlagClearedFirst ==
  variable_registers[FLAG_REGISTER]
    = IF \E q \in DOMAIN display : prev.display[q] /\ ~display[q] THEN 1 ELSE 0

\* C14 as claimed: the origin of a Draw is (Vx mod 64, Vy mod 64), and the
\* flag register is cleared before any pixel is drawn.  (The code violates
\* it: the y origin is Vy mod 32.)
C14_OriginModuloWidthTwice ==
  DrawBegun =>
    /\ DrawnFrom(OriginX, DrawVy % DISPLAY_WIDTH)
    /\ FlagClearedFirst

\* C14, amended: the origin of a Draw is (Vx mod 64, Vy mod 32), each register
\* taken modulo the display's extent in its direction, and the flag register
\* is cleared before any pixel is drawn.
C14_OriginModuloWidthAndHeight ==
  DrawBegun =>
    /\ DrawnFrom(OriginX, OriginY)
    /\ FlagClearedFirst

\* A Draw with Vx = 70 and Vy = 40 has turned the pixel (6, 8) on.
C14_Witness ==
  /\ DrawBegun /\ op.res.tag = "Ok"
  /\ DrawVx = 70 /\ DrawVy = 40
  /\ display[6 + 8 * DISPLAY_WIDTH] /\ ~prev.display[6 + 8 * DISPLAY_WIDTH]

\* The memory below 0x200 holds the font at 0x050 and 0 elsewhere.
FontIntact(mem) ==
  \A a \in 0 .. PROGRAM_BASE - 1 :
    byte_at(mem, a)
      = IF FONT_BASE <= a /\ a < FONT_BASE + Len(FONT)
          THEN FONT[a - FONT_BASE + 1] ELSE 0

\* C15: in every state reached by load_program, update and on_input calls,
\* failing ones included, memory[0x050 + i] is byte i of the font for i in
\* 0 .. 79 and every other byte below 0x200 is 0; no tick writes memory.
C15_FontIntegrity ==
  /\ FontIntact(memory)
  /\ op.name = "tick" => memory = prev.memory

\* A Draw has read the font and succeeded in a machine into which a program
\* of 3584 bytes and then a shorter one were loaded.
C15_Witness ==
  /\ TickOk /\ nibble1(op.word) = 13 /\ index_register = FONT_BASE
  /\ byte_at(memory, RAM_SIZE - 1) = 18
  /\ byte_at(memory, PROGRAM_BASE) # 18
  /\ FontIntact(memory)

\* C16: in every state reached by load_program and update calls the program
\* counter is below 4096.  (Stated as claimed; the code violates it.)
C16_ProgramCounterInMemory == program_counter < RAM_SIZE

\* C17: a tick that fails leaves PC, registers, index register, stack,
\* memory and display as they were when the tick began.  (Stated as claimed;
\* the code violates it.)
C17_FailingTickIsAtomic ==
  op.name = "tick" /\ op.res.tag = "Err" =>
    Unchanged({ "program_counter", "variable_registers", "index_register",
                "stack", "memory", "display" })

\* The tick before the last step failed because its word could not be
\* decoded or because it was a Return with the stack empty, and the last step
\* is the next tick: the first one of the next update, no load_program having
\* been called between the two.
TickAfterBadInstruction ==
  /\ op.name = "tick" /\ earlier.op.name = "tick"
  /\ earlier.op.res.tag = "Err"
  /\ earlier.op.res.kind \in { "unknown instruction", "stack is empty" }

\* C18: the update after one that failed at a bad instruction at address p
\* fails again at p, with the same failure; the instruction at p + 2 is not
\* run.  (Stated as claimed; the code violates it.)
C18_BadInstructionIsNotSkipped ==
  TickAfterBadInstruction =>
    /\ op.at = earlier.op.at
    /\ op.res = earlier.op.res

\* The words that match no row of the instruction table.
NoInstruction(w) ==
  \/ nibble1(w) = 0 /\ w \notin { ClearScreenWord, ReturnWord }
  \/ nibble1(w) \in { 5, 9 } /\ nibble4(w) # 0
  \/ nibble1(w) \in { 8, 11, 12, 14, 15 }

\* C19: the decoder rejects every 16-bit word that matches no row of the
\* instruction table with the unknown-instruction error carrying the word
\* (decided for all 65536 words where the machine is constructed), and a tick
\* that fetches such a word fails with that error and changes no register,
\* index register, stack, memory byte or pixel.
C19_UnknownWordsAreRejected ==
  /\ call = "new" =>
        \A w \in 0 .. 65535 :
          NoInstruction(w) =>
            Instruction_try_from(w) = Undecoded(Err("unknown instruction", w))
  /\ TickDone /\ NoInstruction(op.word) =>
        /\ op.res = Err("unknown instruction", op.word)
        /\ Unchanged({ "variable_registers", "index_register", "stack",
                       "memory", "display" })

\* A tick has fetched the word 8120 after V0 was set to 5, and has failed.
C19_Witness ==
  /\ TickDone /\ op.word = UnknownWord /\ NoInstruction(op.word)
  /\ op.res.tag = "Err" /\ op.res.arg = UnknownWord
  /\ variable_registers[0] = 5

\* C20: a Return run with the stack empty, that is, whenever one Return more
\* than Calls would have been run, fails with the stack-is-empty error; the
\* stack stays empty, the PC is left where the fetch put it (no popped or
\* default value is stored in it), and nothing else changes.
C20_ReturnOnEmptyStackFails ==
  TickDone /\ op.word = ReturnWord /\ prev.stack = << >> =>
    /\ op.res = Err("stack is empty", 0)
    /\ stack = << >>
    /\ program_counter = op.at + 2
    /\ Unchanged({ "variable_registers", "index_register", "memory", "display" })

\* A Return has failed on the empty stack right after the Return that took
\* the only return address, 0x202, off the stack.
C20_Witness ==
  /\ TickDone /\ op.word = ReturnWord /\ op.res = Err("stack is empty", 0)
  /\ earlier.op.name = "tick" /\ earlier.op.word = ReturnWord
  /\ earlier.op.res.tag = "Ok" /\ earlier.stack = << PROGRAM_BASE + 2 >>
  /\ op.at = PROGRAM_BASE + 2 /\ stack = << >>

\* The machine c with no input event recorded.
NoInput(c) == [c EXCEPT !.input = << >>]

\* C21: on_input appends the event to the input record and changes nothing
\* else; a load_program call and a tick do on a machine what they do on the
\* same machine with no input event recorded, result included, and leave the
\* input record alone.  So two runs of a program that differ in the on_input
\* calls between their other calls agree, call by call, on PC, registers,
\* index register, stack, memory, display and timers.
C21_InputDoesNotInterfere ==
  /\ op.name = "input" =>
        /\ Len(input) = Len(prev.input) + 1
        /\ SubSeq(input, 1, Len(prev.input)) = prev.input
        /\ Unchanged({ "program_counter", "variable_registers", "index_register",
                       "stack", "memory", "display", "delay_timer",
                       "sound_timer" })
  /\ op.name = "tick" =>
        LET t == tick(NoInput(prev), overflow_checks = "on") IN
        /\ NoInput(Machine) = t.chip
        /\ op.res = t.res
        /\ input = prev.input
  /\ op.name = "load" =>
        LET l == Chip8_load_program(NoInput(prev), LoadedData,
                                    overflow_checks = "on") IN
        /\ NoInput(Machine) = l.chip
        /\ op.res = l.res
        /\ input = prev.input

\* The first tick of a second update has run right after an input event, the
\* event being recorded between the two updates, and has changed the machine.
C21_Witness ==
  /\ TickOk /\ earlier.op.name = "input" /\ updates = 2
  /\ input # << >> /\ prev.input = input
  /\ NoInput(Machine) # NoInput(prev)

====
